---- MODULE Spec2Model ----
(***************************************************************************)
(* Model of presentation_generator.py: the marker-driven line parser       *)
(* (PresentationGenerator.parse_content), the content-slide renderer       *)
(* (create_content_slide / add_code_block / should_bold_text), the         *)
(* artifact loop (generate_presentations) and main.                        *)
(*                                                                         *)
(* Text is modelled character by character: a string is a sequence of      *)
(* one-character values.  A Cyrillic character of the source is written    *)
(* as "^" followed by its Latin transliteration ("^Sh" is the one          *)
(* character U+0428, "^sh" is U+0448), because the module is ASCII.        *)
(***************************************************************************)
EXTENDS Integers, Sequences, FiniteSets, TLC

(***************************************************************************)
(* Bounds of the explored inputs.                                          *)
(***************************************************************************)
MaxLines == 6
MaxBody == 4
MaxMeta == 4
MaxNested == 4
MaxSuffix == 4

(***************************************************************************)
(* Literals of the source.                                                 *)
(***************************************************************************)
TOPIC_START == <<"#", "#", "-", "T", "O", "P", "I", "C", "-", "S", "T", "A", "R", "T", "-", "#", "#">>
SLIDE_START == <<"#", "-", "S", "L", "I", "D", "E", "-", "S", "T", "A", "R", "T", "-", "#">>
TITLE_PREFIX == <<"T", "I", "T", "L", "E", ":", ":">>
PRES_TITLE_PREFIX == <<"^P", "^r", "^a", "^k", "^t", "^i", "^ch", "^e", "^s", "^k", "^a", "^ya", " ", "^r", "^a", "^b", "^o", "^t", "^a">>
LEVEL_PREFIX == <<"^U", "^r", "^o", "^v", "^e", "^n", "^soft", ":">>
MODULE_PREFIX == <<"^M", "^o", "^d", "^u", "^l", "^soft">>
CODE_BEGIN == <<"[", "C", "O", "D", "E", "_", "B", "L", "O", "C", "K", "]">>
CODE_END == <<"[", "/", "C", "O", "D", "E", "_", "B", "L", "O", "C", "K", "]">>
BULLET_PREFIX == <<"-", " ">>
KwGoal == <<"^Ts", "^e", "^l", "^soft", ":">>
KwTasks == <<"^Z", "^a", "^d", "^a", "^ch", "^i", ":">>
KwExample == <<"^P", "^r", "^i", "^m", "^e", "^r">>
KwAssignment == <<"^Z", "^a", "^d", "^a", "^n", "^i", "^e">>
KwStep == <<"^Sh", "^a", "^g">>
BoldKeywords == <<KwGoal, KwTasks, KwExample, KwAssignment, KwStep>>
content_font_size == 14
code_font_size == 12

NL == "\n"
Whitespace == {" ", "\t", "\n", "\r"}
None == [none |-> TRUE]

(***************************************************************************)
(* Python string operations, computed as the interpreter computes them.    *)
(***************************************************************************)
startswith(s, p) ==
  Len(s) >= Len(p) /\ SubSeq(s, 1, Len(p)) = p

RECURSIVE lstrip(_)
lstrip(s) ==
  IF s # <<>> /\ Head(s) \in Whitespace THEN lstrip(Tail(s)) ELSE s

RECURSIVE rstrip(_)
rstrip(s) ==
  IF s # <<>> /\ s[Len(s)] \in Whitespace THEN rstrip(SubSeq(s, 1, Len(s) - 1)) ELSE s

strip(s) == rstrip(lstrip(s))

\* str.replace(old, new): every non-overlapping occurrence, left to right.
RECURSIVE replace(_, _, _)
replace(s, old, new) ==
  IF Len(s) < Len(old) \/ old = <<>> THEN s
  ELSE IF SubSeq(s, 1, Len(old)) = old
       THEN new \o replace(SubSeq(s, Len(old) + 1, Len(s)), old, new)
       ELSE <<Head(s)>> \o replace(Tail(s), old, new)

\* str.split(sep) for a one-character separator.
RECURSIVE split(_, _)
split(s, sep) ==
  IF \A i \in 1..Len(s) : s[i] # sep THEN <<s>>
  ELSE LET i == CHOOSE k \in 1..Len(s) : s[k] = sep /\ \A j \in 1..(k - 1) : s[j] # sep
       IN <<SubSeq(s, 1, i - 1)>> \o split(SubSeq(s, i + 1, Len(s)), sep)

\* sep.join(parts)
RECURSIVE join(_, _)
join(sep, parts) ==
  IF parts = <<>> THEN <<>>
  ELSE IF Len(parts) = 1 THEN parts[1]
  ELSE parts[1] \o sep \o join(sep, Tail(parts))

\* the operator "keyword in text": scan of the start positions
RECURSIVE contains(_, _)
contains(text, keyword) ==
  IF Len(text) < Len(keyword) THEN FALSE
  ELSE IF SubSeq(text, 1, Len(keyword)) = keyword THEN TRUE
  ELSE contains(Tail(text), keyword)

(***************************************************************************)
(* parse_content: the records and the branches of the line loop.  A parser *)
(* state is the triple of locals of parse_content.                         *)
(***************************************************************************)
NewPresentation == [title |-> <<>>, level |-> <<>>, module |-> <<>>, slides |-> <<>>]
NewSlide == [title |-> <<>>, content |-> <<>>]

ParserInit ==
  [presentations |-> <<>>, current_presentation |-> None, current_slide |-> None]

\* current_presentation['slides'].append(current_slide)
AppendSlide(pres, slide) == [pres EXCEPT !.slides = Append(@, slide)]

\* OnTopicStart copying the fields of the presentation it supersedes
OnTopicStartInheritsFields(st) ==
  [presentations |->
      IF st.current_presentation # None
      THEN Append(st.presentations,
                  IF st.current_slide # None
                  THEN AppendSlide(st.current_presentation, st.current_slide)
                  ELSE st.current_presentation)
      ELSE st.presentations,
   current_presentation |->
      IF st.current_presentation # None
      THEN [st.current_presentation EXCEPT !.slides = <<>>]
      ELSE NewPresentation,
   current_slide |-> None]

\* OnTopicStart opening a first slide of the new presentation at once
OnTopicStartOpensSlide(st) ==
  [presentations |->
      IF st.current_presentation # None
      THEN Append(st.presentations,
                  IF st.current_slide # None
                  THEN AppendSlide(st.current_presentation, st.current_slide)
                  ELSE st.current_presentation)
      ELSE st.presentations,
   current_presentation |-> NewPresentation,
   current_slide |-> NewSlide]

\* OnTopicStart without the reset of line 61
OnTopicStartKeepsSlide(st) ==
  [presentations |->
      IF st.current_presentation # None
      THEN Append(st.presentations,
                  IF st.current_slide # None
                  THEN AppendSlide(st.current_presentation, st.current_slide)
                  ELSE st.current_presentation)
      ELSE st.presentations,
   current_presentation |-> NewPresentation,
   current_slide |-> st.current_slide]

\* lines 47-61
OnTopicStart(st) ==
  [presentations |->
      IF st.current_presentation # None
      THEN Append(st.presentations,
                  IF st.current_slide # None
                  THEN AppendSlide(st.current_presentation, st.current_slide)
                  ELSE st.current_presentation)
      ELSE st.presentations,
   current_presentation |-> NewPresentation,
   current_slide |-> None]

\* OnSlideStart opening a slide only while a presentation is open
OnSlideStartNeedsPresentation(st) ==
  [presentations |-> st.presentations,
   current_presentation |->
      IF st.current_slide # None /\ st.current_presentation # None
      THEN AppendSlide(st.current_presentation, st.current_slide)
      ELSE st.current_presentation,
   current_slide |-> IF st.current_presentation # None THEN NewSlide ELSE st.current_slide]

\* OnSlideStart without the flush of lines 65-66
OnSlideStartDropsPrevious(st) ==
  [presentations |-> st.presentations,
   current_presentation |-> st.current_presentation,
   current_slide |-> NewSlide]

\* lines 63-72
OnSlideStart(st) ==
  [presentations |-> st.presentations,
   current_presentation |->
      IF st.current_slide # None /\ st.current_presentation # None
      THEN AppendSlide(st.current_presentation, st.current_slide)
      ELSE st.current_presentation,
   current_slide |-> NewSlide]

\* line 77: line.replace('TITLE::', '').strip()
SlideTitleValue(line) == strip(replace(line, TITLE_PREFIX, <<>>))

\* lines 74-77
OnSlideTitle(st, line) ==
  IF st.current_slide # None
  THEN [st EXCEPT !.current_slide.title = SlideTitleValue(line)]
  ELSE st

\* lines 79-82
OnPresentationTitle(st, line) ==
  IF st.current_presentation # None
  THEN [st EXCEPT !.current_presentation.title = line]
  ELSE st

\* line 87: line.replace('Уровень:', '').strip()
LevelValue(line) == strip(replace(line, LEVEL_PREFIX, <<>>))

\* lines 84-87
OnLevel(st, line) ==
  IF st.current_presentation # None
  THEN [st EXCEPT !.current_presentation.level = LevelValue(line)]
  ELSE st

\* lines 89-92
OnModule(st, line) ==
  IF st.current_presentation # None
  THEN [st EXCEPT !.current_presentation.module = line]
  ELSE st

\* lines 94-96
OnContent(st, line) ==
  IF line # <<>> /\ st.current_slide # None
  THEN [st EXCEPT !.current_slide.content = Append(@, line)]
  ELSE st

\* ParseStep without the branch of lines 89-92
ParseStepWithoutModuleBranch(st, raw) ==
  LET line == strip(raw) IN
  IF startswith(line, TOPIC_START) THEN OnTopicStart(st)
  ELSE IF startswith(line, SLIDE_START) THEN OnSlideStart(st)
  ELSE IF startswith(line, TITLE_PREFIX) THEN OnSlideTitle(st, line)
  ELSE IF startswith(line, PRES_TITLE_PREFIX) THEN OnPresentationTitle(st, line)
  ELSE IF startswith(line, LEVEL_PREFIX) THEN OnLevel(st, line)
  ELSE OnContent(st, line)

\* one iteration of the loop of lines 44-96 on the raw line
ParseStep(st, raw) ==
  LET line == strip(raw) IN
  IF startswith(line, TOPIC_START) THEN OnTopicStart(st)
  ELSE IF startswith(line, SLIDE_START) THEN OnSlideStart(st)
  ELSE IF startswith(line, TITLE_PREFIX) THEN OnSlideTitle(st, line)
  ELSE IF startswith(line, PRES_TITLE_PREFIX) THEN OnPresentationTitle(st, line)
  ELSE IF startswith(line, LEVEL_PREFIX) THEN OnLevel(st, line)
  ELSE IF startswith(line, MODULE_PREFIX) THEN OnModule(st, line)
  ELSE OnContent(st, line)

\* ParseFinish with the append of line 102 nested under the test of line 99
ParseFinishNeedsSlide(st) ==
  IF st.current_slide # None /\ st.current_presentation # None
  THEN Append(st.presentations, AppendSlide(st.current_presentation, st.current_slide))
  ELSE st.presentations

\* lines 98-104: the presentations returned
ParseFinish(st) ==
  LET cp == IF st.current_slide # None /\ st.current_presentation # None
            THEN AppendSlide(st.current_presentation, st.current_slide)
            ELSE st.current_presentation
  IN IF cp # None THEN Append(st.presentations, cp) ELSE st.presentations

\* lines 44-96: the whole loop over a sequence of raw lines
RECURSIVE ParseLoop(_, _)
ParseLoop(st, raw_lines) ==
  IF raw_lines = <<>> THEN st
  ELSE ParseLoop(ParseStep(st, Head(raw_lines)), Tail(raw_lines))

\* lines 36-104
parse_content(text) == ParseFinish(ParseLoop(ParserInit, split(text, NL)))

(***************************************************************************)
(* Rendering.  A text frame is its sequence of paragraphs; a paragraph     *)
(* keeps the attributes the code sets on it.                               *)
(***************************************************************************)
\* the single empty paragraph left by text_frame.clear() (line 149)
EmptyParagraph ==
  [text |-> <<>>, marL |-> FALSE, buNone |-> FALSE, size |-> 0, name |-> <<>>, bold |-> FALSE]

\* should_bold_text testing the start of the text only
should_bold_text_prefix_only(keywords, text) ==
  \E k \in 1..Len(keywords) : startswith(text, keywords[k])

\* lines 126-131
should_bold_text(keywords, text) ==
  \E k \in 1..Len(keywords) : contains(text, keywords[k])

\* p.font.name of code (line 216) and of text (line 201)
CodeFont == <<"C", "o", "n", "s", "o", "l", "a", "s">>
TextFont == <<"C", "a", "l", "i", "b", "r", "i">>

\* add_code_block joining the lines with a space
add_code_block_space_join(paragraphs, code_lines) ==
  IF code_lines = <<>> THEN paragraphs
  ELSE Append(paragraphs,
              [text |-> join(<<" ">>, code_lines), marL |-> FALSE, buNone |-> FALSE,
               size |-> code_font_size, name |-> CodeFont, bold |-> FALSE])

\* lines 207-218
add_code_block(paragraphs, code_lines) ==
  IF code_lines = <<>> THEN paragraphs
  ELSE Append(paragraphs,
              [text |-> join(<<NL>>, code_lines), marL |-> FALSE, buNone |-> FALSE,
               size |-> code_font_size, name |-> CodeFont, bold |-> FALSE])

\* TextParagraph with the "- " prefix of a list item removed from its text
TextParagraphStripsBullet(keywords, line) ==
  [text |-> IF startswith(strip(line), BULLET_PREFIX)
            THEN SubSeq(strip(line), Len(BULLET_PREFIX) + 1, Len(strip(line)))
            ELSE line,
   marL |-> startswith(strip(line), BULLET_PREFIX),
   buNone |-> ~startswith(strip(line), BULLET_PREFIX),
   size |-> content_font_size,
   name |-> TextFont,
   bold |-> \E k \in 1..Len(keywords) : contains(line, keywords[k])]

\* lines 178-205: the paragraph written for an ordinary text line
TextParagraph(keywords, line) ==
  [text |-> IF startswith(strip(line), BULLET_PREFIX) THEN strip(line) ELSE line,
   marL |-> startswith(strip(line), BULLET_PREFIX),
   buNone |-> ~startswith(strip(line), BULLET_PREFIX),
   size |-> content_font_size,
   name |-> TextFont,
   bold |-> should_bold_text(keywords, line)]

\* lines 151-153: the locals of the content loop
RenderInit ==
  [in_code_block |-> FALSE, code_lines |-> <<>>, first_paragraph |-> TRUE,
   paragraphs |-> <<EmptyParagraph>>]

\* RenderLine without the reset of line 158
RenderLineKeepsBuffer(keywords, r, line) ==
  IF strip(line) = CODE_BEGIN
  THEN [r EXCEPT !.in_code_block = TRUE]
  ELSE IF strip(line) = CODE_END
  THEN [in_code_block |-> FALSE, code_lines |-> <<>>, first_paragraph |-> FALSE,
        paragraphs |-> add_code_block(r.paragraphs, r.code_lines)]
  ELSE IF r.in_code_block
  THEN [r EXCEPT !.code_lines = Append(@, line)]
  ELSE IF r.first_paragraph
  THEN [r EXCEPT !.first_paragraph = FALSE,
                 !.paragraphs = [@ EXCEPT ![1] = TextParagraph(keywords, line)]]
  ELSE [r EXCEPT !.paragraphs = Append(@, TextParagraph(keywords, line))]

\* lines 155-205: one iteration of the content loop
RenderLine(keywords, r, line) ==
  IF strip(line) = CODE_BEGIN
  THEN [r EXCEPT !.in_code_block = TRUE, !.code_lines = <<>>]
  ELSE IF strip(line) = CODE_END
  THEN [in_code_block |-> FALSE, code_lines |-> <<>>, first_paragraph |-> FALSE,
        paragraphs |-> add_code_block(r.paragraphs, r.code_lines)]
  ELSE IF r.in_code_block
  THEN [r EXCEPT !.code_lines = Append(@, line)]
  ELSE IF r.first_paragraph
  THEN [r EXCEPT !.first_paragraph = FALSE,
                 !.paragraphs = [@ EXCEPT ![1] = TextParagraph(keywords, line)]]
  ELSE [r EXCEPT !.paragraphs = Append(@, TextParagraph(keywords, line))]

RECURSIVE RenderLoop(_, _, _)
RenderLoop(keywords, r, content_lines) ==
  IF content_lines = <<>> THEN r
  ELSE RenderLoop(keywords, RenderLine(keywords, r, Head(content_lines)), Tail(content_lines))

\* create_content_slide flushing the buffer of an unclosed block after the loop
create_content_slide_flushes_open_block(keywords, title, content_lines) ==
  [title |-> title,
   paragraphs |->
     LET r == RenderLoop(keywords, RenderInit, content_lines)
     IN add_code_block(r.paragraphs, r.code_lines)]

\* lines 133-205: the slide added to the deck
create_content_slide(keywords, title, content_lines) ==
  [title |-> title,
   paragraphs |-> RenderLoop(keywords, RenderInit, content_lines).paragraphs]

\* lines 106-124
create_title_slide(title, subtitle) == [title |-> title, subtitle |-> subtitle]

(***************************************************************************)
(* generate_presentations: one deck per parsed presentation.               *)
(***************************************************************************)
\* characters of the modelled alphabet that are neither \w nor \s
Punctuation == {"#", "-", ":", "[", "]", "/", "|", ".", "(", ")"}
IsSpace(c) == c \in Whitespace
IsWord(c) == c \notin (Punctuation \cup Whitespace)

\* re.sub(r'[^\w\s-]', '', title)
RECURSIVE DropUnsafe(_)
DropUnsafe(s) ==
  IF s = <<>> THEN <<>>
  ELSE IF IsWord(Head(s)) \/ IsSpace(Head(s)) \/ Head(s) = "-"
       THEN <<Head(s)>> \o DropUnsafe(Tail(s))
       ELSE DropUnsafe(Tail(s))

\* re.sub(r'[-\s]+', '_', s): every maximal run becomes one underscore
RECURSIVE CollapseRuns(_)
CollapseRuns(s) ==
  IF s = <<>> THEN <<>>
  ELSE IF IsSpace(Head(s)) \/ Head(s) = "-"
       THEN IF Len(s) > 1 /\ (IsSpace(s[2]) \/ s[2] = "-")
            THEN CollapseRuns(Tail(s))
            ELSE <<"_">> \o CollapseRuns(Tail(s))
       ELSE <<Head(s)>> \o CollapseRuns(Tail(s))

\* re.sub(r'[-\s]', '_', s): the pattern of line 252 without its '+'
RECURSIVE ReplaceEach(_)
ReplaceEach(s) ==
  IF s = <<>> THEN <<>>
  ELSE IF IsSpace(Head(s)) \/ Head(s) = "-"
       THEN <<"_">> \o ReplaceEach(Tail(s))
       ELSE <<Head(s)>> \o ReplaceEach(Tail(s))

\* SafeTitle replacing every blank and hyphen by its own underscore
SafeTitleWithoutCollapse(title) == ReplaceEach(strip(DropUnsafe(title)))

\* lines 251-252
SafeTitle(title) == CollapseRuns(strip(DropUnsafe(title)))

Digit(n) == <<"0", "1", "2", "3", "4", "5", "6", "7", "8", "9">>[n + 1]

\* str(i) for i >= 0
RECURSIVE Decimal(_)
Decimal(n) == IF n < 10 THEN <<Digit(n)>> ELSE Decimal(n \div 10) \o <<Digit(n % 10)>>

\* f"{i:02d}"
Format02d(n) == IF n < 10 THEN <<"0">> \o Decimal(n) ELSE Decimal(n)

\* Get giving the default also for a key whose value is empty
GetOrDefaultWhenEmpty(d, key, default) ==
  IF key \in DOMAIN d /\ d[key] # <<>> THEN d[key] ELSE default

\* dict.get(key, default)
Get(d, key, default) == IF key \in DOMAIN d THEN d[key] ELSE default

\* f'Презентация {i}' (line 234)
DefaultTitle(i) ==
  <<"^P", "^r", "^e", "^z", "^e", "^n", "^t", "^a", "^ts", "^i", "^ya", " ">> \o Decimal(i)
\* 'Слайд' (line 246)
DefaultSlideTitle == <<"^S", "^l", "^a", "^j", "^d">>
LevelLabel == <<"^U", "^r", "^o", "^v", "^e", "^n", "^soft", ":", " ">>
SubtitleSep == <<" ", "|", " ">>
\* the default of the --output option (line 268)
OutputDir == <<"p", "r", "e", "s", "e", "n", "t", "a", "t", "i", "o", "n", "s">>

\* lines 235-241
Subtitle(presentation_data) ==
  LET level == Get(presentation_data, "level", <<>>)
      module == Get(presentation_data, "module", <<>>)
      subtitle_parts == (IF level # <<>> THEN <<LevelLabel \o level>> ELSE <<>>)
                        \o (IF module # <<>> THEN <<module>> ELSE <<>>)
  IN IF subtitle_parts # <<>> THEN join(SubtitleSep, subtitle_parts) ELSE <<>>

\* OutputPath with a file name made of the slug alone
OutputPathWithoutIndex(i, title) ==
  OutputDir \o <<"/">> \o <<"p", "r", "e", "s", "e", "n", "t", "a", "t", "i", "o", "n", "_">>
    \o SafeTitle(title) \o <<".", "p", "p", "t", "x">>

\* lines 253-254
OutputPath(i, title) ==
  OutputDir \o <<"/">> \o <<"p", "r", "e", "s", "e", "n", "t", "a", "t", "i", "o", "n", "_">>
    \o Format02d(i) \o <<"_">> \o SafeTitle(title) \o <<".", "p", "p", "t", "x">>

\* the locals of the content loop after the j-th slide when in_code_block and
\* code_lines are carried from one slide into the next
RECURSIVE CarriedCodeState(_, _, _)
CarriedCodeState(keywords, slides, j) ==
  IF j = 0 THEN RenderInit
  ELSE LET prev == CarriedCodeState(keywords, slides, j - 1)
       IN RenderLoop(keywords,
                     [RenderInit EXCEPT !.in_code_block = prev.in_code_block,
                                        !.code_lines = prev.code_lines],
                     Get(slides[j], "content", <<>>))

\* BuildDeck with one in_code_block and one code_lines for the whole deck
BuildDeckSharedCodeState(keywords, i, presentation_data) ==
  LET title == Get(presentation_data, "title", DefaultTitle(i))
      slides == Get(presentation_data, "slides", <<>>)
  IN [title_slide |-> create_title_slide(title, Subtitle(presentation_data)),
      slides |-> [j \in 1..Len(slides) |->
                    [title |-> Get(slides[j], "title", DefaultSlideTitle),
                     paragraphs |-> CarriedCodeState(keywords, slides, j).paragraphs]]]

\* lines 231-248: the deck built for the i-th presentation
BuildDeck(keywords, i, presentation_data) ==
  LET title == Get(presentation_data, "title", DefaultTitle(i))
      slides == Get(presentation_data, "slides", <<>>)
  IN [title_slide |-> create_title_slide(title, Subtitle(presentation_data)),
      slides |-> [j \in 1..Len(slides) |->
                    create_content_slide(keywords,
                                         Get(slides[j], "title", DefaultSlideTitle),
                                         Get(slides[j], "content", <<>>))]]

(***************************************************************************)
(* Input texts.  Families of line sequences, joined by newlines:           *)
(* structure (topics, slides, titles, text), slide bodies with code        *)
(* delimiters after an opened topic and slide, metadata lines, and slide   *)
(* bodies that continue an opened code block.                              *)
(***************************************************************************)
LnTopic == TOPIC_START
LnTopicPad == <<" ">> \o TOPIC_START \o <<" ", "x">>
LnSlide == SLIDE_START
LnTitleA == TITLE_PREFIX \o <<"a">>
LnTitleRep == TITLE_PREFIX \o <<" ", "a", " ">> \o TITLE_PREFIX \o <<"b">>
LnLowerPad == <<" ", "^sh", "^a", "^g", "\t">>
LnCodeBegin == CODE_BEGIN
LnCodeEnd == CODE_END
LnCodeX == <<"x">>
LnCodePad == <<" ", " ", "y">>
LnBulletStep == BULLET_PREFIX \o KwStep
LnEmpty == <<>>
LnPresTitle == PRES_TITLE_PREFIX \o <<" ", "1">>
LnLevelRep == LEVEL_PREFIX \o <<" ", "2", " ">> \o LEVEL_PREFIX
LnModule1 == MODULE_PREFIX \o <<" ", "1">>
LnModule2 == MODULE_PREFIX \o <<" ", "2">>

StructPool == {LnTopic, LnSlide, LnTitleA, LnLowerPad}
CodePool == {LnCodeBegin, LnCodeEnd, LnCodeX, LnCodePad, LnBulletStep, LnModule1, LnSlide, LnEmpty}
MetaPool == {LnTopicPad, LnSlide, LnPresTitle, LnLevelRep, LnModule1, LnModule2, LnTitleRep}
NestedPool == {LnCodeBegin, LnCodeEnd, LnCodeX, LnCodePad, LnSlide}

SeqsUpTo(pool, n) == UNION {[1..k -> pool] : k \in 0..n}

InputLines ==
  SeqsUpTo(StructPool, MaxLines)
    \cup {<<LnTopic, LnSlide>> \o body : body \in SeqsUpTo(CodePool, MaxBody)}
    \cup SeqsUpTo(MetaPool, MaxMeta)
    \cup {<<LnTopic, LnSlide, LnCodeBegin>> \o body : body \in SeqsUpTo(NestedPool, MaxNested)}

Contents == {join(<<NL>>, ls) : ls \in InputLines}

\* texts of one presentation whose title line ends in punctuation, blanks,
\* hyphens, underscores and letters
SlugChars == {" ", "\t", "-", "_", ":", "a"}
SlugContents ==
  {join(<<NL>>, <<LnTopic, PRES_TITLE_PREFIX \o suffix>>) :
     suffix \in SeqsUpTo(SlugChars, MaxSuffix)}

(***************************************************************************)
(* The program: main reads the file, parse_content runs its line loop,     *)
(* generate_presentations writes one deck per presentation.                *)
(***************************************************************************)
VARIABLES
  pc,                    \* position in main / generate_presentations / parse_content
  content,               \* the text of the input file
  bold_keywords,         \* self.bold_keywords, None before the generator exists
  lines, idx,            \* content.split('\n') and the loop position in it
  presentations, current_presentation, current_slide,   \* locals of parse_content
  dir_created,           \* os.makedirs has run
  gi,                    \* the index i of enumerate(presentations_data, 1)
  created_files,         \* the list returned by generate_presentations
  fs,                    \* the saved decks, by path
  printed                \* what was printed, in order

vars == <<pc, content, bold_keywords, lines, idx, presentations, current_presentation,
          current_slide, dir_created, gi, created_files, fs, printed>>

parserVars == <<lines, idx, presentations, current_presentation, current_slide>>
outputVars == <<dir_created, gi, created_files, fs, printed>>

Init ==
  /\ pc = "main"
  /\ content \in Contents
  /\ bold_keywords = None
  /\ lines = <<>>
  /\ idx = 1
  /\ presentations = <<>>
  /\ current_presentation = None
  /\ current_slide = None
  /\ dir_created = FALSE
  /\ gi = 1
  /\ created_files = <<>>
  /\ fs = <<>>
  /\ printed = <<>>

\* lines 273-275, 284-285, 222, 36-42: the file is read, the generator is
\* constructed and parse_content splits the text
ReadOk ==
  /\ pc = "main"
  /\ pc' = "parse"
  /\ bold_keywords' = BoldKeywords
  /\ lines' = split(content, NL)
  /\ idx' = 1
  /\ presentations' = ParserInit.presentations
  /\ current_presentation' = ParserInit.current_presentation
  /\ current_slide' = ParserInit.current_slide
  /\ UNCHANGED <<content, outputVars>>

\* lines 276-278
ReadNotFound ==
  /\ pc = "main"
  /\ pc' = "done"
  /\ printed' = Append(printed, [kind |-> "not_found"])
  /\ UNCHANGED <<content, bold_keywords, parserVars, dir_created, gi, created_files, fs>>

\* the same start on the texts of SlugContents
InitSlug ==
  /\ pc = "main"
  /\ content \in SlugContents
  /\ bold_keywords = None
  /\ lines = <<>>
  /\ idx = 1
  /\ presentations = <<>>
  /\ current_presentation = None
  /\ current_slide = None
  /\ dir_created = FALSE
  /\ gi = 1
  /\ created_files = <<>>
  /\ fs = <<>>
  /\ printed = <<>>

\* ReadError without the return of line 281: main goes on to line 284
ReadErrorFallsThrough ==
  /\ pc = "main"
  /\ pc' = "parse"
  /\ printed' = Append(printed, [kind |-> "read_error"])
  /\ bold_keywords' = BoldKeywords
  /\ lines' = split(content, NL)
  /\ UNCHANGED <<content, idx, presentations, current_presentation, current_slide,
                 dir_created, gi, created_files, fs>>

\* lines 279-281
ReadError ==
  /\ pc = "main"
  /\ pc' = "done"
  /\ printed' = Append(printed, [kind |-> "read_error"])
  /\ UNCHANGED <<content, bold_keywords, parserVars, dir_created, gi, created_files, fs>>

ParserState ==
  [presentations |-> presentations, current_presentation |-> current_presentation,
   current_slide |-> current_slide]

\* lines 44-96: one iteration of the line loop
ParseLine ==
  /\ pc = "parse"
  /\ idx <= Len(lines)
  /\ LET st == ParseStep(ParserState, lines[idx]) IN
       /\ presentations' = st.presentations
       /\ current_presentation' = st.current_presentation
       /\ current_slide' = st.current_slide
  /\ idx' = idx + 1
  /\ UNCHANGED <<pc, content, bold_keywords, lines, outputVars>>

\* lines 98-104: the loop is over, the open slide and presentation are flushed
ParseEnd ==
  /\ pc = "parse"
  /\ idx > Len(lines)
  /\ presentations' = ParseFinish(ParserState)
  /\ pc' = "makedirs"
  /\ UNCHANGED <<content, bold_keywords, lines, idx, current_presentation, current_slide,
                 outputVars>>

\* lines 225-227
MakeDirs ==
  /\ pc = "makedirs"
  /\ dir_created' = TRUE
  /\ created_files' = <<>>
  /\ gi' = 1
  /\ pc' = "generate"
  /\ UNCHANGED <<content, bold_keywords, parserVars, fs, printed>>

\* line 225 raises (the directory cannot be created): the exception leaves
\* generate_presentations and main uncaught
MakeDirsFails ==
  /\ pc = "makedirs"
  /\ pc' = "crashed"
  /\ UNCHANGED <<content, bold_keywords, parserVars, outputVars>>

\* line 257 raises (the deck cannot be written): the exception leaves
\* generate_presentations and main uncaught
SaveFails ==
  /\ pc = "generate"
  /\ gi <= Len(presentations)
  /\ pc' = "crashed"
  /\ UNCHANGED <<content, bold_keywords, parserVars, outputVars>>

\* prs.save(output_path): the file at that path now holds the deck
Save(files, path, deck) ==
  [p \in (DOMAIN files) \cup {path} |-> IF p = path THEN deck ELSE files[p]]

\* lines 229-259: one iteration of the loop over the parsed presentations
GenerateOne ==
  /\ pc = "generate"
  /\ gi <= Len(presentations)
  /\ LET presentation_data == presentations[gi]
          title == Get(presentation_data, "title", DefaultTitle(gi))
          output_path == OutputPath(gi, title)
     IN /\ fs' = Save(fs, output_path, BuildDeck(bold_keywords, gi, presentation_data))
        /\ created_files' = Append(created_files, output_path)
        /\ printed' = Append(printed, [kind |-> "created", path |-> output_path])
  /\ gi' = gi + 1
  /\ UNCHANGED <<pc, content, bold_keywords, parserVars, dir_created>>

\* lines 261, 287-289: the list is returned and main prints the count and the paths
Report ==
  /\ pc = "generate"
  /\ gi > Len(presentations)
  /\ printed' = printed \o <<[kind |-> "total", count |-> Len(created_files)]>>
                   \o [k \in 1..Len(created_files) |-> [kind |-> "item", path |-> created_files[k]]]
  /\ pc' = "done"
  /\ UNCHANGED <<content, bold_keywords, parserVars, dir_created, gi, created_files, fs>>

Next ==
  \/ ReadOk
  \/ ReadNotFound
  \/ ReadError
  \/ ParseLine
  \/ ParseEnd
  \/ MakeDirs
  \/ MakeDirsFails
  \/ GenerateOne
  \/ SaveFails
  \/ Report

Spec == Init /\ [][Next]_vars

\* the program on the texts of SlugContents
SpecSlug == InitSlug /\ [][Next]_vars

(***************************************************************************)
(* The input as the claims read it: the trimmed lines and their kinds, in  *)
(* the order of the if/elif chain of lines 47-94.                          *)
(***************************************************************************)
NumLines == Len(lines)
Trimmed(k) == strip(lines[k])

LineKind(t) ==
  IF startswith(t, TOPIC_START) THEN "topic"
  ELSE IF startswith(t, SLIDE_START) THEN "slide"
  ELSE IF startswith(t, TITLE_PREFIX) THEN "title"
  ELSE IF startswith(t, PRES_TITLE_PREFIX) THEN "ptitle"
  ELSE IF startswith(t, LEVEL_PREFIX) THEN "level"
  ELSE IF startswith(t, MODULE_PREFIX) THEN "module"
  ELSE IF t = <<>> THEN "empty"
  ELSE "content"

KindAt(k) == LineKind(Trimmed(k))
IdxOfKind(kind) == {k \in 1..NumLines : KindAt(k) = kind}
TopicIdx == IdxOfKind("topic")
SlideIdx == IdxOfKind("slide")

SetMax(S) == CHOOSE m \in S : \A x \in S : x <= m
SetMin(S) == CHOOSE m \in S : \A x \in S : m <= x

\* the k-th smallest element of a set of integers
RECURSIVE Nth(_, _)
Nth(S, k) == IF k = 1 THEN SetMin(S) ELSE Nth(S \ {SetMin(S)}, k - 1)

\* the elements of a set of integers in increasing order
Ascending(S) == [k \in 1..Cardinality(S) |-> Nth(S, k)]

\* the first boundary (topic-start or slide-start line) after line a, or the end
NextBoundary(a) ==
  LET later == {m \in (TopicIdx \cup SlideIdx) : m > a}
  IN IF later = {} THEN NumLines + 1 ELSE SetMin(later)

\* the first topic-start line after line a, or the end
NextTopic(a) ==
  LET later == {m \in TopicIdx : m > a}
  IN IF later = {} THEN NumLines + 1 ELSE SetMin(later)

\* the slide-start lines of the presentation opened at topic-start line t
SlidesOfTopic(t) == {m \in SlideIdx : t < m /\ m < NextTopic(t)}

\* the slide the lines after slide-start line sl describe
ExpectedSlide(sl) ==
  LET body == (sl + 1)..(NextBoundary(sl) - 1)
      titles == {m \in body : KindAt(m) = "title"}
      texts == Ascending({m \in body : KindAt(m) = "content"})
  IN [title |-> IF titles = {} THEN <<>> ELSE SlideTitleValue(Trimmed(SetMax(titles))),
      content |-> [q \in 1..Len(texts) |-> Trimmed(texts[q])]]

\* parse_content has returned
Returned == pc = "makedirs"
\* main has finished after a successful read
Finished == pc = "done" /\ dir_created

TotalSlides(ps) ==
  LET RECURSIVE Sum(_)
      Sum(k) == IF k = 0 THEN 0 ELSE Len(ps[k].slides) + Sum(k - 1)
  IN Sum(Len(ps))

(***************************************************************************)
(* C1: parse_content returns as many presentation records as the input has *)
(* lines that, once trimmed, start with the topic-start marker (none when  *)
(* there is no such line).                                                 *)
(***************************************************************************)
C1_PresentationCount ==
  Returned => Len(presentations) = Cardinality(TopicIdx)

\* three topics, one of them written with padding and trailing text
C1_Witness ==
  /\ Returned
  /\ Len(presentations) = 3
  /\ \E k \in TopicIdx : lines[k] # TOPIC_START

(***************************************************************************)
(* C2: a slide-start line before the first topic-start line yields no      *)
(* slide, and nothing of what precedes the first topic-start line reaches  *)
(* the output: the result is that of the input cut at its first            *)
(* topic-start line, every emitted slide stems from a slide-start line     *)
(* after a topic-start line, and without a topic-start line the result is  *)
(* empty.                                                                  *)
(***************************************************************************)
C2_NothingBeforeFirstTopic ==
  Returned =>
    /\ TopicIdx = {} => presentations = <<>>
    /\ TotalSlides(presentations)
         = Cardinality({m \in SlideIdx : \E t \in TopicIdx : t < m})
    /\ TopicIdx # {} =>
         presentations
           = ParseFinish(ParseLoop(ParserInit, SubSeq(lines, SetMin(TopicIdx), NumLines)))

\* a slide-start line, then a TITLE:: or content line, then the first topic-start line
C2_Witness ==
  /\ Returned
  /\ presentations # <<>>
  /\ \E sl \in SlideIdx :
        /\ sl + 1 < SetMin(TopicIdx)
        /\ KindAt(sl + 1) \in {"title", "content"}

(***************************************************************************)
(* C3: the slides of the k-th presentation are, in order and one for one,  *)
(* the slides described by the slide-start lines between the k-th          *)
(* topic-start line and the next topic-start line or the end of the input. *)
(***************************************************************************)
C3_SlidesInOrder ==
  Returned =>
    \A k \in 1..Len(presentations) :
      k <= Cardinality(TopicIdx) =>
        LET starts == Ascending(SlidesOfTopic(Nth(TopicIdx, k)))
        IN /\ Len(presentations[k].slides) = Len(starts)
           /\ \A j \in 1..Len(starts) :
                presentations[k].slides[j] = ExpectedSlide(starts[j])

\* two presentations; the first has two slides of different content, the
\* last presentation ends with the input and has a slide
C3_Witness ==
  /\ Returned
  /\ Len(presentations) = 2
  /\ Len(presentations[1].slides) = 2
  /\ presentations[1].slides[1] # presentations[1].slides[2]
  /\ Len(presentations[2].slides) = 1

(***************************************************************************)
(* The rendered output as the claims read it.                              *)
(***************************************************************************)
\* the deck saved for the k-th presentation and its j-th content slide
DeckOf(k) == fs[created_files[k]]
RenderedSlide(k, j) == DeckOf(k).slides[j]

IsCodeParagraph(p) == p.name = CodeFont
IsTextParagraph(p) == p.name = TextFont
CodeParagraphs(slide) == SelectSeq(slide.paragraphs, IsCodeParagraph)

\* the number of the presentation and of the slide that line a falls into
\* (0 when no presentation, or no slide of that presentation, is open there)
TopicsBefore(a) == {t \in TopicIdx : t < a}
PresentationAt(a) == Cardinality(TopicsBefore(a))
SlidesBefore(a) ==
  {m \in SlideIdx : m < a /\ (TopicsBefore(a) # {} => m > SetMax(TopicsBefore(a)))}
SlideAt(a) == IF TopicsBefore(a) = {} THEN 0 ELSE Cardinality(SlidesBefore(a))
\* after line a - 1, current_slide is set
SlideOpenAt(a) == SlidesBefore(a) # {}

IsDelimiter(t) == strip(t) = CODE_BEGIN \/ strip(t) = CODE_END

\* in a slide's content, line m is buffered as code: the last delimiter
\* before it is a begin marker
InCode(c, m) ==
  /\ ~IsDelimiter(c[m])
  /\ \E a \in 1..(m - 1) :
        /\ strip(c[a]) = CODE_BEGIN
        /\ \A x \in (a + 1)..(m - 1) : strip(c[x]) # CODE_END

\* the end markers of a slide's content that close a non-empty buffer
ProductiveEnds(c) ==
  {q \in 2..Len(c) : strip(c[q]) = CODE_END /\ InCode(c, q - 1)}

\* the trimmed lines strictly between lines a and b
Interior(a, b) == [q \in 1..(b - a - 1) |-> Trimmed(a + q)]

\* lines a..b are a code block of an open slide: begin marker, one or more
\* non-empty lines, end marker
CodeBlockAt(a, b) ==
  /\ a + 1 < b
  /\ Trimmed(a) = CODE_BEGIN
  /\ Trimmed(b) = CODE_END
  /\ \A m \in (a + 1)..(b - 1) : Trimmed(m) # <<>>
  /\ PresentationAt(a) > 0
  /\ SlideAt(a) > 0

\* ... whose interior lines are content lines other than the delimiters
PlainCodeBlockAt(a, b) ==
  /\ CodeBlockAt(a, b)
  /\ \A m \in (a + 1)..(b - 1) :
        KindAt(m) = "content" /\ ~IsDelimiter(Trimmed(m))

(***************************************************************************)
(* C4 as stated: whatever the interior lines are, the slide the block sits *)
(* in has a code block whose text is the interior lines, trimmed, joined   *)
(* by newlines.                                                            *)
(***************************************************************************)
C4_AnyInteriorText ==
  Finished =>
    \A a \in 1..NumLines : \A b \in 1..NumLines :
      CodeBlockAt(a, b) =>
        LET R == RenderedSlide(PresentationAt(a), SlideAt(a))
        IN \E q \in 1..Len(R.paragraphs) :
             /\ IsCodeParagraph(R.paragraphs[q])
             /\ R.paragraphs[q].text = join(<<NL>>, Interior(a, b))

(***************************************************************************)
(* C4 amended: in a slide of an open presentation, a '[CODE_BLOCK]' line,  *)
(* N >= 1 non-empty lines none of which starts with a marker or metadata   *)
(* prefix or is a code delimiter, and a '[/CODE_BLOCK]' line yield exactly *)
(* one code block: the slide has one code paragraph per end marker that    *)
(* closes a non-empty buffer, and the one of this end marker has as text   *)
(* the N lines, trimmed once, joined by newlines in their order.           *)
(***************************************************************************)
C4_CodeBlockRoundTrip ==
  Finished =>
    \A a \in 1..NumLines : \A b \in 1..NumLines :
      PlainCodeBlockAt(a, b) =>
        LET k == PresentationAt(a)
            j == SlideAt(a)
            c == presentations[k].slides[j].content
            sl == SetMax(SlidesBefore(a))
            \* the position of the end marker in the slide's content
            e == Cardinality({m \in (sl + 1)..b : KindAt(m) = "content"})
            n == Cardinality({q \in ProductiveEnds(c) : q <= e})
            blocks == CodeParagraphs(RenderedSlide(k, j))
        IN /\ SubSeq(c, e - (b - a), e) = <<CODE_BEGIN>> \o Interior(a, b) \o <<CODE_END>>
           /\ e \in ProductiveEnds(c)
           /\ Len(blocks) = Cardinality(ProductiveEnds(c))
           /\ blocks[n].text = join(<<NL>>, Interior(a, b))

\* a block of two different lines, one of them written with padding
C4_Witness ==
  /\ Finished
  /\ \E a \in 1..NumLines :
        /\ a + 3 <= NumLines
        /\ PlainCodeBlockAt(a, a + 3)
        /\ Trimmed(a + 1) # Trimmed(a + 2)
        /\ lines[a + 2] # Trimmed(a + 2)

\* the position, in the content of its slide, of content line m
ContentPos(m) ==
  Cardinality({x \in (SetMax(SlidesBefore(m)) + 1)..m : KindAt(x) = "content"})

\* line m is a content line of a slide of an open presentation
EmittedContentLine(m) ==
  /\ KindAt(m) = "content"
  /\ PresentationAt(m) > 0
  /\ SlideAt(m) > 0

\* the parsed slide that line m falls into
ParsedSlideAt(m) == presentations[PresentationAt(m)].slides[SlideAt(m)]

\* line a is a begin marker of a slide with no end marker before the slide ends
UnterminatedAt(a) ==
  /\ EmittedContentLine(a)
  /\ Trimmed(a) = CODE_BEGIN
  /\ \A m \in (a + 1)..(NextBoundary(a) - 1) : Trimmed(m) # CODE_END

(***************************************************************************)
(* C5: when a begin marker of a slide is not followed by an end marker     *)
(* before the slide ends, the slide is rendered exactly as its content     *)
(* before that begin marker alone would be: the items before the marker    *)
(* are emitted unchanged and nothing is emitted for the lines after it.    *)
(***************************************************************************)
C5_UnterminatedBlockLost ==
  Finished =>
    \A a \in 1..NumLines :
      UnterminatedAt(a) =>
        LET c == ParsedSlideAt(a).content
            R == RenderedSlide(PresentationAt(a), SlideAt(a))
            before == SubSeq(c, 1, ContentPos(a) - 1)
        IN /\ c[ContentPos(a)] = CODE_BEGIN
           /\ R.paragraphs
                = create_content_slide(bold_keywords, R.title, before).paragraphs
           /\ Len(CodeParagraphs(R)) = Cardinality(ProductiveEnds(before))

\* a text line, the begin marker, a buffered line, the end of the input
C5_Witness ==
  /\ Finished
  /\ \E a \in 2..(NumLines - 1) :
        /\ UnterminatedAt(a)
        /\ ContentPos(a) = 2
        /\ ~IsDelimiter(Trimmed(a - 1))
        /\ KindAt(a + 1) = "content"
        /\ Len(RenderedSlide(PresentationAt(a), SlideAt(a)).paragraphs) = 1
        /\ IsTextParagraph(RenderedSlide(PresentationAt(a), SlideAt(a)).paragraphs[1])

\* the lines of a slide's content written as text: no delimiter, not buffered
PlainIdx(c) == {q \in 1..Len(c) : ~IsDelimiter(c[q]) /\ ~InCode(c, q)}
TextParagraphs(slide) == SelectSeq(slide.paragraphs, IsTextParagraph)
IsBullet(line) == startswith(line, BULLET_PREFIX)

\* every text line of every slide of an open presentation is emitted as
\* one paragraph of the given text, a list item exactly when it starts with "- "
EmittedOnceAs(Text(_)) ==
  Finished =>
    \A m \in 1..NumLines :
      (EmittedContentLine(m) /\ ContentPos(m) \in PlainIdx(ParsedSlideAt(m).content)) =>
        LET c == ParsedSlideAt(m).content
            plain == Ascending(PlainIdx(c))
            items == TextParagraphs(RenderedSlide(PresentationAt(m), SlideAt(m)))
            n == Cardinality({q \in PlainIdx(c) : q <= ContentPos(m)})
        IN /\ c[ContentPos(m)] = Trimmed(m)
           /\ Len(items) = Len(plain)
           /\ items[n].text = Text(Trimmed(m))
           /\ items[n].marL = IsBullet(Trimmed(m))
           /\ items[n].buNone = ~IsBullet(Trimmed(m))

WithoutBulletPrefix(line) ==
  IF IsBullet(line) THEN SubSeq(line, Len(BULLET_PREFIX) + 1, Len(line)) ELSE line
FullLine(line) == line

(***************************************************************************)
(* C6 as stated: a text line is emitted as exactly one content item, a     *)
(* bullet item whose text is the line without its leading "- " when the    *)
(* line starts with "- ", and otherwise a paragraph of the full line.      *)
(***************************************************************************)
C6_BulletTextWithoutPrefix == EmittedOnceAs(WithoutBulletPrefix)

(***************************************************************************)
(* C6 amended: every non-empty, non-marker line that arrives while a slide *)
(* of an open presentation is open and code mode is off is emitted as      *)
(* exactly one content item whose text is the full trimmed line: an        *)
(* indented list item that keeps its leading "- " when the line starts     *)
(* with "- ", and otherwise a paragraph without bullet.                    *)
(***************************************************************************)
C6_TextLineEmittedOnce == EmittedOnceAs(FullLine)

\* a slide rendering a list item and, after it, an ordinary paragraph
C6_Witness ==
  /\ Finished
  /\ \E m \in 1..(NumLines - 1) :
        /\ EmittedContentLine(m)
        /\ IsBullet(Trimmed(m))
        /\ KindAt(m + 1) = "content"
        /\ {ContentPos(m), ContentPos(m) + 1} \subseteq PlainIdx(ParsedSlideAt(m).content)
        /\ ~IsBullet(Trimmed(m + 1))

\* what follows the leading prefix of a line, trimmed
AfterPrefix(line, prefix) == strip(SubSeq(line, Len(prefix) + 1, Len(line)))

\* line m is the last line of its kind before line `stop`
LastOfKindBefore(m, stop) ==
  \A x \in (m + 1)..(stop - 1) : KindAt(x) # KindAt(m)

(***************************************************************************)
(* C7: the title of a slide is what follows the leading 'TITLE::' of its   *)
(* last TITLE:: line, trimmed, and the level of a presentation is what     *)
(* follows the leading level prefix of its last level line, trimmed, also  *)
(* when the prefix text occurs again later in the line.                    *)
(***************************************************************************)
C7_RemainderAfterLeadingPrefix ==
  Returned =>
    \A m \in 1..NumLines :
      /\ (/\ KindAt(m) = "title"
          /\ PresentationAt(m) > 0
          /\ SlideAt(m) > 0
          /\ LastOfKindBefore(m, NextBoundary(m)))
           => ParsedSlideAt(m).title = AfterPrefix(Trimmed(m), TITLE_PREFIX)
      /\ (/\ KindAt(m) = "level"
          /\ PresentationAt(m) > 0
          /\ LastOfKindBefore(m, NextTopic(m)))
           => presentations[PresentationAt(m)].level = AfterPrefix(Trimmed(m), LEVEL_PREFIX)

\* the value a metadata line stores in its field
FieldValue(kind, line) == IF kind = "level" THEN LevelValue(line) ELSE line
FieldOf(pres, kind) ==
  IF kind = "ptitle" THEN pres.title
  ELSE IF kind = "level" THEN pres.level
  ELSE pres.module

(***************************************************************************)
(* C8: each of the fields title, level and module of the k-th presentation *)
(* is set by the last line of that kind between the k-th topic-start line  *)
(* and the next topic-start line (slide open or not), and is the empty     *)
(* string when there is none: no line before the first topic-start line    *)
(* and no line of another presentation has an effect on it.                *)
(***************************************************************************)
C8_MetadataOfOwnPresentationOnly ==
  Returned =>
    \A k \in 1..Len(presentations) :
      k <= Cardinality(TopicIdx) =>
        \A kind \in {"ptitle", "level", "module"} :
          LET t == Nth(TopicIdx, k)
              own == {m \in (t + 1)..(NextTopic(t) - 1) : KindAt(m) = kind}
          IN FieldOf(presentations[k], kind)
               = IF own = {} THEN <<>> ELSE FieldValue(kind, Trimmed(SetMax(own)))

\* two presentations with different module lines
C8_Witness ==
  /\ Returned
  /\ Len(presentations) = 2
  /\ presentations[1].module # <<>>
  /\ presentations[2].module # <<>>
  /\ presentations[1].module # presentations[2].module

RECURSIVE SumOver(_, _)
SumOver(f, S) ==
  IF S = {} THEN 0 ELSE LET x == CHOOSE y \in S : TRUE IN f[x] + SumOver(f, S \ {x})

\* the number of content lines held by all slides of the result
TotalContent(ps) ==
  SumOver([k \in 1..Len(ps) |->
             SumOver([j \in 1..Len(ps[k].slides) |-> Len(ps[k].slides[j].content)],
                     1..Len(ps[k].slides))],
          1..Len(ps))

(***************************************************************************)
(* C9: a non-empty content line is held by the slide opened by the most    *)
(* recent slide-start line of the current presentation, at its position,   *)
(* and by no other slide; a content line with no slide-start line since    *)
(* the last topic-start line is held by no slide.                          *)
(***************************************************************************)
C9_ContentOfOpenSlideOnly ==
  Returned =>
    /\ \A m \in 1..NumLines :
         EmittedContentLine(m) =>
           /\ ContentPos(m) <= Len(ParsedSlideAt(m).content)
           /\ ParsedSlideAt(m).content[ContentPos(m)] = Trimmed(m)
    /\ TotalContent(presentations)
         = Cardinality({m \in 1..NumLines : EmittedContentLine(m)})

\* a content line kept by a slide, a second topic-start line, a content
\* line with no slide open
C9_Witness ==
  /\ Returned
  /\ \E m \in 1..NumLines :
        /\ KindAt(m) = "content"
        /\ PresentationAt(m) = 2
        /\ SlideAt(m) = 0
        /\ \E x \in 1..(m - 1) : EmittedContentLine(x)

\* the keywords as the source lists them
FixedKeywords == {KwGoal, KwTasks, KwExample, KwAssignment, KwStep}
HasKeyword(text) ==
  \E kw \in FixedKeywords :
    \E i \in 1..Len(text) :
      i + Len(kw) - 1 <= Len(text) /\ SubSeq(text, i, i + Len(kw) - 1) = kw

\* texts with and without a keyword: at the start, inside, in another
\* case, cut short
EmphasisSamples ==
  {KwGoal \o <<" ", "x">>, <<"x", " ">> \o KwTasks, KwExample \o <<"^y">>,
   <<"(">> \o KwAssignment \o <<")">>, KwStep,
   <<"^ts", "^e", "^l", "^soft", ":">>, <<"^Ts", "^e", "^l", "^soft">>,
   <<"^Z", "^a", "^d", "^a", "^ch", "^a">>, <<"^Sh", "^a", " ", "^g">>, <<>>}

(***************************************************************************)
(* C10: should_bold_text(text) is true exactly when text contains one of   *)
(* the five keywords as a case-sensitive substring; the keyword list never *)
(* changes once set, so the answer for a text is the same in every state,  *)
(* and every rendered text paragraph is bold exactly when its line         *)
(* contains a keyword.                                                     *)
(***************************************************************************)
C10_BoldExactlyOnKeyword ==
  bold_keywords # None =>
    /\ bold_keywords = BoldKeywords
    /\ \A text \in EmphasisSamples :
         should_bold_text(bold_keywords, text) = HasKeyword(text)
    /\ Finished =>
         \A m \in 1..NumLines :
           should_bold_text(bold_keywords, Trimmed(m)) = HasKeyword(Trimmed(m))
    /\ Finished =>
         \A k \in 1..Len(presentations) : \A j \in 1..Len(presentations[k].slides) :
           \A q \in 1..Len(RenderedSlide(k, j).paragraphs) :
             LET p == RenderedSlide(k, j).paragraphs[q]
             IN IsTextParagraph(p) => (p.bold = HasKeyword(p.text))

\* a bold paragraph whose keyword is not at its start, next to one that is not bold
C10_Witness ==
  /\ Finished
  /\ \E k \in 1..Len(presentations) : \E j \in 1..Len(presentations[k].slides) :
        LET ps == TextParagraphs(RenderedSlide(k, j))
        IN \E q \in 1..Len(ps) : \E r \in 1..Len(ps) :
             /\ ps[q].bold
             /\ \A kw \in FixedKeywords : ~startswith(ps[q].text, kw)
             /\ ~ps[r].bold

\* the read of the input file has failed
ReadFailed ==
  printed # <<>> /\ printed[1].kind \in {"not_found", "read_error"}

(***************************************************************************)
(* C11: when reading the input file fails, main prints one diagnostic and  *)
(* returns: nothing is parsed, no generator is constructed, the output     *)
(* directory is not created, no artifact is written, and no further step   *)
(* is taken.                                                               *)
(***************************************************************************)
C11_ReadFailureProducesNothing ==
  ReadFailed =>
    /\ pc = "done"
    /\ Len(printed) = 1
    /\ bold_keywords = None
    /\ lines = <<>>
    /\ presentations = <<>>
    /\ current_presentation = None
    /\ current_slide = None
    /\ ~dir_created
    /\ created_files = <<>>
    /\ fs = <<>>
    /\ ~ENABLED Next

\* a read error on a text that would have produced a presentation
C11_Witness ==
  /\ ReadFailed
  /\ printed[1].kind = "read_error"
  /\ parse_content(content) # <<>>

\* the start of the path of the i-th artifact, for i < 100
IndexedPathStart(i) ==
  OutputDir \o <<"/", "p", "r", "e", "s", "e", "n", "t", "a", "t", "i", "o", "n", "_">>
    \o <<Digit(i \div 10), Digit(i % 10), "_">>

(***************************************************************************)
(* C12: when no write fails, one artifact is written per parsed            *)
(* presentation, in parse order, the i-th under a name carrying the index  *)
(* i (from 1); the returned list and the printed count have as many        *)
(* entries as the input has topic-start lines, and the names are pairwise  *)
(* distinct.                                                               *)
(***************************************************************************)
C12_OneArtifactPerPresentation ==
  /\ pc = "generate" => Len(created_files) = gi - 1
  /\ Finished =>
       /\ Len(created_files) = Cardinality(TopicIdx)
       /\ Len(presentations) = Cardinality(TopicIdx)
       /\ Cardinality(DOMAIN fs) = Cardinality(TopicIdx)
       /\ \A i \in 1..Len(created_files) :
            /\ created_files[i] \in DOMAIN fs
            /\ startswith(created_files[i], IndexedPathStart(i))
            /\ fs[created_files[i]].title_slide.title = presentations[i].title
            /\ Len(fs[created_files[i]].slides) = Len(presentations[i].slides)
            /\ \A j \in 1..Len(presentations[i].slides) :
                 fs[created_files[i]].slides[j].title = presentations[i].slides[j].title
       /\ \A i \in 1..Len(created_files) : \A j \in 1..Len(created_files) :
            i # j => created_files[i] # created_files[j]
       /\ Cardinality({m \in 1..Len(printed) : printed[m].kind = "total"}) = 1
       /\ \A m \in 1..Len(printed) :
            printed[m].kind = "total" => printed[m].count = Cardinality(TopicIdx)
       /\ Cardinality({m \in 1..Len(printed) : printed[m].kind = "created"})
            = Cardinality(TopicIdx)

\* two presentations of the same title and of different slides
C12_Witness ==
  /\ Finished
  /\ Len(created_files) >= 2
  /\ presentations[1].title = presentations[2].title
  /\ Len(presentations[1].slides) # Len(presentations[2].slides)

\* the slug in the path of the i-th artifact
SlugOf(path, i) ==
  SubSeq(path, Len(IndexedPathStart(i)) + 1, Len(path) - Len(<<".", "p", "p", "t", "x">>))

IsSeparator(c) == c \in Whitespace \/ c = "-"
IsKept(c) == c = "-" \/ c \notin Punctuation
\* the title without the characters that are neither word characters, blanks
\* nor hyphens, cut at its first and last non-blank character
CleanTitle(title) ==
  LET d == SelectSeq(title, IsKept)
      solid == {p \in 1..Len(d) : d[p] \notin Whitespace}
  IN IF solid = {} THEN <<>> ELSE SubSeq(d, SetMin(solid), SetMax(solid))
\* d with each maximal run of blanks and hyphens written as one underscore
RunsAsUnderscore(d) ==
  LET ends == Ascending({p \in 1..Len(d) :
                           ~IsSeparator(d[p]) \/ p = Len(d) \/ ~IsSeparator(d[p + 1])})
  IN [q \in 1..Len(ends) |-> IF IsSeparator(d[ends[q]]) THEN "_" ELSE d[ends[q]]]

(***************************************************************************)
(* C13: the slug in the name of an artifact consists of word characters    *)
(* only (no blank, no hyphen); it is the title without its non-word        *)
(* characters, with each run of blanks and hyphens written as a single     *)
(* underscore, so that a title without underscores gives a slug without    *)
(* two underscores in a row.                                               *)
(***************************************************************************)
C13_SlugOfWordCharacters ==
  Finished =>
    \A i \in 1..Len(created_files) :
      LET slug == SlugOf(created_files[i], i)
          title == presentations[i].title
      IN /\ \A p \in 1..Len(slug) :
              slug[p] \notin Whitespace \cup Punctuation /\ slug[p] # "-"
         /\ slug = RunsAsUnderscore(CleanTitle(title))
         /\ (\A p \in 1..Len(title) : title[p] # "_") =>
              \A p \in 1..(Len(slug) - 1) : ~(slug[p] = "_" /\ slug[p + 1] = "_")

\* a title with a run made of a blank and a hyphen, with punctuation, and
\* without underscore
C13_Witness ==
  /\ Finished
  /\ Len(created_files) = 1
  /\ LET title == presentations[1].title
     IN /\ \E p \in 1..(Len(title) - 2) :
             /\ title[p] \in Whitespace
             /\ title[p + 1] = "-"
             /\ ~IsSeparator(title[p + 2])
        /\ \E p \in 1..Len(title) : title[p] = ":"
        /\ \A p \in 1..Len(title) : title[p] # "_"

\* the line loop is running; lines 1..idx-1 have been processed
Parsing == pc = "parse"

(***************************************************************************)
(* C14 as stated: in every state reached while parsing, a slide is open    *)
(* only if a presentation is open.                                         *)
(***************************************************************************)
C14_SlideOnlyInPresentation ==
  Parsing => (current_slide # None => current_presentation # None)

(***************************************************************************)
(* C14 amended: in every state reached while parsing, a presentation is    *)
(* open exactly when a topic-start line has been read, and a slide is open *)
(* exactly when a slide-start line has been read since the last            *)
(* topic-start line (or since the start of the input when there was        *)
(* none): a slide-start line read while no presentation is open does open  *)
(* a slide, a fifth state besides the four named ones, and that slide is   *)
(* in no presentation; once a topic-start line has been read, a slide is   *)
(* open only if a presentation is open.                                    *)
(***************************************************************************)
C14_ParserStates ==
  Parsing =>
    /\ (current_presentation # None) = (TopicsBefore(idx) # {})
    /\ (current_slide # None) = SlideOpenAt(idx)
    /\ TopicsBefore(idx) = {} => presentations = <<>>
    /\ TopicsBefore(idx) # {} => (current_slide # None => current_presentation # None)
    /\ current_presentation # None =>
         Len(current_presentation.slides)
           = IF current_slide # None THEN SlideAt(idx) - 1 ELSE SlideAt(idx)

\* a slide is open, with a content line in it, and no presentation is open
C14_Witness ==
  /\ Parsing
  /\ current_slide # None
  /\ current_slide.content # <<>>
  /\ current_presentation = None

SixPrefixes ==
  {TOPIC_START, SLIDE_START, TITLE_PREFIX, PRES_TITLE_PREFIX, LEVEL_PREFIX, MODULE_PREFIX}
StartsWithMarker(text) == \E prefix \in SixPrefixes : startswith(text, prefix)

(***************************************************************************)
(* C15: a line that starts with one of the six marker and metadata         *)
(* prefixes is consumed as such wherever it occurs, so no content line of  *)
(* a returned slide, no rendered paragraph and no line of a rendered code  *)
(* block starts with one of them; the lines a slide holds are exactly the  *)
(* non-empty lines of its range that start with none of the prefixes.      *)
(***************************************************************************)
C15_MarkersNeverContent ==
  /\ Returned =>
       \A k \in 1..Len(presentations) : \A j \in 1..Len(presentations[k].slides) :
         LET c == presentations[k].slides[j].content
         IN \A q \in 1..Len(c) : c[q] # <<>> /\ ~StartsWithMarker(c[q])
  /\ Returned =>
       \A m \in 1..NumLines :
         (StartsWithMarker(Trimmed(m)) /\ PresentationAt(m) > 0 /\ SlideAt(m) > 0
            /\ KindAt(m) \notin {"topic", "slide"}) =>
           Len(ParsedSlideAt(m).content)
             = Cardinality({x \in (SetMax(SlidesBefore(m)) + 1)..(NextBoundary(m) - 1) :
                              Trimmed(x) # <<>> /\ ~StartsWithMarker(Trimmed(x))})
  /\ Finished =>
       \A k \in 1..Len(presentations) : \A j \in 1..Len(presentations[k].slides) :
         LET ps == RenderedSlide(k, j).paragraphs
         IN \A q \in 1..Len(ps) :
              LET parts == split(ps[q].text, NL)
              IN \A x \in 1..Len(parts) : ~StartsWithMarker(parts[x])

\* a metadata line between the delimiters of a code block that also holds
\* an ordinary line
C15_Witness ==
  /\ Finished
  /\ \E a \in 1..NumLines : \E b \in 1..NumLines :
        /\ CodeBlockAt(a, b)
        /\ \E m \in (a + 1)..(b - 1) : KindAt(m) = "module"
        /\ \E m \in (a + 1)..(b - 1) : KindAt(m) = "content"

\* the last begin marker before position q of a slide's content
LastBegin(c, q) == SetMax({a \in 1..(q - 1) : strip(c[a]) = CODE_BEGIN})

(***************************************************************************)
(* C16: a '[CODE_BLOCK]' line always resets the buffer: the code block     *)
(* emitted at a '[/CODE_BLOCK]' line holds exactly the lines after the     *)
(* most recent '[CODE_BLOCK]' line, also when that line arrived while code *)
(* mode was already on.                                                    *)
(***************************************************************************)
C16_BeginResetsBuffer ==
  Finished =>
    \A k \in 1..Len(presentations) : \A j \in 1..Len(presentations[k].slides) :
      LET c == presentations[k].slides[j].content
          ends == Ascending(ProductiveEnds(c))
          blocks == CodeParagraphs(RenderedSlide(k, j))
      IN /\ Len(blocks) = Len(ends)
         /\ \A n \in 1..Len(ends) :
              blocks[n].text
                = join(<<NL>>, SubSeq(c, LastBegin(c, ends[n]) + 1, ends[n] - 1))

\* begin marker, a buffered line, a second begin marker in code mode,
\* another line, end marker
C16_Witness ==
  /\ Finished
  /\ \E k \in 1..Len(presentations) : \E j \in 1..Len(presentations[k].slides) :
        LET c == presentations[k].slides[j].content
        IN \E a \in 1..Len(c) : \E q \in ProductiveEnds(c) :
             /\ a + 1 < LastBegin(c, q)
             /\ strip(c[a]) = CODE_BEGIN
             /\ \A x \in (a + 1)..(LastBegin(c, q) - 1) : ~IsDelimiter(c[x])
             /\ c[a + 1] # c[q - 1]

\* slide j of presentation k is rendered from its own lines alone, starting
\* in text mode with an empty buffer
RenderedFromOwnLines(k, j) ==
  LET c == presentations[k].slides[j].content
      R == RenderedSlide(k, j)
      plain == Ascending(PlainIdx(c))
  IN /\ Len(TextParagraphs(R)) = Len(plain)
     /\ \A n \in 1..Len(plain) : TextParagraphs(R)[n].text = c[plain[n]]
     /\ Len(CodeParagraphs(R)) = Cardinality(ProductiveEnds(c))
     /\ \A n \in 1..Len(CodeParagraphs(R)) :
          \E q \in ProductiveEnds(c) :
            CodeParagraphs(R)[n].text
              = join(<<NL>>, SubSeq(c, LastBegin(c, q) + 1, q - 1))

\* line a opens a block that is still open at the slide-start or
\* topic-start line that follows
OpenAtBoundary(a) == UnterminatedAt(a) /\ NextBoundary(a) <= NumLines

(***************************************************************************)
(* C17: code mode never survives a slide boundary: after a slide-start or  *)
(* topic-start line that arrives while a code block is open, the slide     *)
(* left behind and every later slide are rendered from their own lines,    *)
(* the new slide starting in text mode with an empty buffer; the lines     *)
(* buffered in the unclosed block are in neither.                          *)
(***************************************************************************)
C17_CodeModeEndsWithSlide ==
  Finished =>
    \A a \in 1..NumLines :
      OpenAtBoundary(a) =>
        \A k \in 1..Len(presentations) : \A j \in 1..Len(presentations[k].slides) :
          (\/ k > PresentationAt(a)
           \/ k = PresentationAt(a) /\ j >= SlideAt(a))
            => RenderedFromOwnLines(k, j)

\* a block with a buffered line is open at a slide-start line, and the new
\* slide has a text line
C17_Witness ==
  /\ Finished
  /\ \E a \in 1..NumLines :
        LET b == NextBoundary(a)
        IN /\ OpenAtBoundary(a)
           /\ a + 1 < b
           /\ KindAt(a + 1) = "content"
           /\ ~IsDelimiter(Trimmed(a + 1))
           /\ KindAt(b) = "slide"
           /\ b < NumLines
           /\ KindAt(b + 1) = "content"
           /\ ~IsDelimiter(Trimmed(b + 1))
           /\ Len(TextParagraphs(RenderedSlide(PresentationAt(a), SlideAt(a) + 1))) = 1

\* the items of a slide's content that the renderer emits: text lines and
\* end markers closing a non-empty buffer
EmittedItems(c) == PlainIdx(c) \cup ProductiveEnds(c)

(***************************************************************************)
(* C18: the body of a slide with at least one content item is exactly one  *)
(* paragraph per text line or list item and one per closed non-empty code  *)
(* block, with no additional empty paragraph; an end marker closing an     *)
(* empty buffer adds nothing.                                              *)
(***************************************************************************)
C18_OneBlockPerItem ==
  Finished =>
    \A k \in 1..Len(presentations) : \A j \in 1..Len(presentations[k].slides) :
      LET c == presentations[k].slides[j].content
          R == RenderedSlide(k, j)
      IN EmittedItems(c) # {} =>
           /\ Len(R.paragraphs) = Cardinality(EmittedItems(c))
           /\ \A n \in 1..Len(R.paragraphs) : R.paragraphs[n] # EmptyParagraph

PresentationFields == {"title", "level", "module", "slides"}
SlideFields == {"title", "content"}

\* the lines of topic-start line t up to the next one hold no presentation
\* title line
NoTitleLine(t) == \A m \in (t + 1)..(NextTopic(t) - 1) : KindAt(m) # "ptitle"
\* the lines of slide-start line sl up to the next boundary hold no TITLE:: line
NoSlideTitleLine(sl) == \A m \in (sl + 1)..(NextBoundary(sl) - 1) : KindAt(m) # "title"

(***************************************************************************)
(* C19: every record of parse_content carries all of its fields            *)
(* (presentation: title, level, module, slides; slide: title, content), so *)
(* the fallback values of the renderer are never used: a presentation      *)
(* with no title line is rendered with the empty title and an empty slug,  *)
(* and a slide with no TITLE:: line with the empty heading.                *)
(***************************************************************************)
C19_FallbacksNeverUsed ==
  /\ \A k \in 1..Len(presentations) :
        /\ DOMAIN presentations[k] = PresentationFields
        /\ \A j \in 1..Len(presentations[k].slides) :
              DOMAIN presentations[k].slides[j] = SlideFields
  /\ Finished =>
        \A k \in 1..Len(created_files) :
          LET t == Nth(TopicIdx, k)
              sls == Ascending(SlidesOfTopic(t))
          IN /\ DeckOf(k).title_slide.title # DefaultTitle(k)
             /\ NoTitleLine(t) =>
                   /\ DeckOf(k).title_slide.title = <<>>
                   /\ created_files[k] = IndexedPathStart(k) \o <<".", "p", "p", "t", "x">>
             /\ Len(DeckOf(k).slides) = Len(sls)
             /\ \A j \in 1..Len(sls) :
                   /\ RenderedSlide(k, j).title # DefaultSlideTitle
                   /\ NoSlideTitleLine(sls[j]) => RenderedSlide(k, j).title = <<>>

\* a presentation without a title line holding a slide without a TITLE::
\* line, next to a presentation and a slide that have theirs
C19_Witness ==
  /\ Finished
  /\ \E k \in 1..Len(created_files) :
        /\ NoTitleLine(Nth(TopicIdx, k))
        /\ \E j \in 1..Len(DeckOf(k).slides) :
              /\ NoSlideTitleLine(Ascending(SlidesOfTopic(Nth(TopicIdx, k)))[j])
              /\ RenderedSlide(k, j).title = <<>>
        /\ SlugOf(created_files[k], k) = <<>>

====
